---- MODULE Spec2Model ----
(***************************************************************************)
(* The acquisition-and-retention engine of src/src/fetcher.py: try_fetch,  *)
(* save_image, the update of the latest pointer, rotate_storage and the    *)
(* loop of main, with the archive directory as the web server's list and   *)
(* download endpoints (src/src/web_server.py) see it.                      *)
(*                                                                         *)
(* Time is a counter of days.  It advances only in the pacing sleep of     *)
(* main, by zero (the next cycle starts within the same second) or by one  *)
(* day; a cycle, its backoff sleeps included, is short against a day and   *)
(* happens at the instant the clock shows.                                 *)
(***************************************************************************)
EXTENDS Integers, Sequences, FiniteSets, TLC

\* ------------------------------------------------------------------ bounds
MaxClock == 2       \* the clock stops advancing at this day
MaxCycles == 2      \* main runs this many cycles
MaxRetries == 2     \* RETRY_COUNT is drawn from 0..MaxRetries
MaxAgeCfg == 1      \* rotate_storage alone: MAX_AGE_DAYS is drawn from 0..MaxAgeCfg
MaxDirFiles == 3    \* rotate_storage alone: the directory holds at most this many files

\* ------------------------------------------------------ program constants
\* RETRY_BACKOFF_FACTOR is read from the environment; the model runs with 2
RETRY_BACKOFF_FACTOR == 2
\* resp.status_code == 200
HTTP_OK == 200

\* --------------------------------------------------------------- universe
Sources == {1, 2}                   \* the registry, in this order
NumSources == Cardinality(Sources)
Statuses == {HTTP_OK, 404}
None == [kind |-> "None"]

\* url suffix of each source: Path(url.split("?")[0]).suffix
UrlSuffix(s) == IF s = 1 THEN ".jpg" ELSE ""
\* content-type headers the camera of source s sends
CTypes(s) == IF s = 1 THEN {"image/png", ""} ELSE {"image/png"}
\* the picture a camera serves in cycle c: every cycle has its own
Body(c) == c

VARIABLES
    cfg,        \* RETRY_COUNT, MAX_FILES, MAX_AGE_DAYS, and whether symlinks exist
    clock,      \* datetime.utcnow(), in days
    dir,        \* dir[s]: the regular files of source s's archive directory, latest excluded
    latest,     \* latest[s]: the entry named latest of source s's directory
    pc,         \* position of the process
    cycle,      \* number of the running cycle
    idx,        \* main: index of the source being processed
    attempt,    \* try_fetch: attempt
    resp,       \* try_fetch: the response returned, or None
    dest,       \* main: dest, the name of the item being written
    gets,       \* history: requests.get calls of the running try_fetch
    lastGet,    \* history: what the last requests.get of the running try_fetch did
    sleeps,     \* history: the backoff sleeps of the running try_fetch, in seconds
    run,        \* history: run[s], what this cycle did for source s
    processed,  \* history: the sources this cycle has started on, in order
    sweep,      \* history: the rotate_storage calls made on the directory since its last write
    env,        \* os.environ as the process finds it, or the arguments of a function called alone
    sources,    \* main: sources, the list parse_sources returned
    made,       \* the directories ensure_storage_dir has created
    ret,        \* what main, or a function called alone, returned
    start       \* main: start, the time.time() at which the running cycle began

\* what startup and the pacing of the loop read and write; the steps of a cycle
\* leave it alone
startVars == <<env, sources, made, ret, start>>
\* what the loop of main reads and writes
loopVars == <<cfg, clock, dir, latest, pc, cycle, idx, attempt, resp, dest,
              gets, lastGet, sleeps, run, processed, sweep>>

vars == <<cfg, clock, dir, latest, pc, cycle, idx, attempt, resp, dest,
          gets, lastGet, sleeps, run, processed, sweep, env, sources, made, ret, start>>

fetchVars == <<attempt, resp, gets, lastGet, sleeps>>

\* time.sleep: the clock after a sleep that crosses d day boundaries
Later(t, d) == IF t + d <= MaxClock THEN t + d ELSE t

\* ------------------------------------------------------------- try_fetch
RECURSIVE Pow(_, _)
Pow(b, n) == IF n = 0 THEN 1 ELSE b * Pow(b, n - 1)

\* what one requests.get of source s can do in cycle c; body 0 is the empty body
Responses(s, c) ==
    [kind : {"response"}, status : Statuses, body : {0, Body(c)}, ctype : CTypes(s)]
Outcomes(s, c) == Responses(s, c) \cup {[kind |-> "transport_error"], [kind |-> "timeout"]}

\* resp.status_code == 200 and resp.content
AnyStatusSucceeds(o) == o.kind = "response" /\ o.body # 0
AttemptSucceeds(o) == o.kind = "response" /\ o.status = HTTP_OK /\ o.body # 0

\* while attempt <= retries
SkipsLastAttempt(a, retries) == a < retries
LoopContinues(a, retries) == a <= retries

StartFetch ==
    /\ attempt' = 0
    /\ resp' = None
    /\ gets' = 0
    /\ lastGet' = None
    /\ sleeps' = <<>>

\* one pass of the loop body up to the return or the attempt += 1
FetchAttempt ==
    /\ pc = "get"
    /\ \E o \in Outcomes(idx, cycle) :
         /\ gets' = gets + 1
         /\ lastGet' = o
         /\ IF AttemptSucceeds(o)
              THEN /\ resp' = o
                   /\ attempt' = attempt
                   /\ pc' = "fetched"
              ELSE /\ resp' = resp
                   /\ attempt' = attempt + 1
                   /\ pc' = "backoff"
    /\ UNCHANGED <<startVars, cfg, clock, dir, latest, cycle, idx, dest, sleeps, run, processed, sweep>>

\* sleep = backoff ** attempt; time.sleep(sleep); then the loop test
FetchSleep ==
    /\ pc = "backoff"
    /\ sleeps' = Append(sleeps, Pow(RETRY_BACKOFF_FACTOR, attempt))
    /\ lastGet' = None
    /\ pc' = IF LoopContinues(attempt, cfg.retries) THEN "get" ELSE "fetched"
    /\ UNCHANGED <<startVars, cfg, clock, dir, latest, cycle, idx, attempt, resp, dest, gets,
                   run, processed, sweep>>

\* ------------------------------------------------------- names and files
\* guess_extension: the content-type first (ctype is the header up to ";",
\* stripped and lowered), then the url's suffix, then .img
guess_extension(ctype, suffix) ==
    IF ctype \in {"image/jpeg", "image/jpg"} THEN ".jpg"
    ELSE IF ctype = "image/png" THEN ".png"
    ELSE IF ctype = "image/gif" THEN ".gif"
    ELSE IF ctype = "image/webp" THEN ".webp"
    ELSE IF suffix # "" THEN suffix
    ELSE ".img"

\* position of an extension in string order
ExtRank(e) ==
    IF e = ".gif" THEN 1
    ELSE IF e = ".img" THEN 2
    ELSE IF e = ".jpg" THEN 3
    ELSE IF e = ".mp4" THEN 4
    ELSE IF e = ".png" THEN 5
    ELSE 6

\* a file name: the timestamp ts formatted, then ext, then ".tmp" when tmp
filename_for_ts(ts, ext) == [ts |-> ts, ext |-> ext, tmp |-> FALSE]

\* save_image: tmp = path.with_suffix(path.suffix + ".tmp")
InPlacePath(path) == path
TmpPath(path) == [path EXCEPT !.tmp = TRUE]

\* the name "latest"; it sorts after every name that starts with a digit
LatestName == [ts |-> MaxClock + 1, ext |-> "", tmp |-> FALSE]

\* the name of a video the web server writes into an archive directory,
\* timelapse_<timestamp>.mp4; it sorts after "latest"
TimelapseName == [ts |-> MaxClock + 2, ext |-> ".mp4", tmp |-> FALSE]

\* string order of two names of one directory, as sorted() compares them
NameLess(a, b) ==
    \/ a.ts < b.ts
    \/ a.ts = b.ts /\ ExtRank(a.ext) < ExtRank(b.ext)
    \/ a.ts = b.ts /\ a.ext = b.ext /\ ~a.tmp /\ b.tmp

\* a regular file: its name, the body it was written from, how much of the body
\* it holds ("empty", "part" or "full"), and its mtime
NewFile(name, body, len, mtime) ==
    [name |-> name, body |-> body, len |-> len, mtime |-> mtime]

NamesOf(d) == {f.name : f \in d}
FileAt(d, name) == CHOOSE f \in d : f.name = name
Without(d, names) == {f \in d : f.name \notin names}

\* sorted([p for p in storage.iterdir() if p.is_file() and p.name != "latest"])
RECURSIVE SortedFiles(_)
SortedFiles(d) ==
    IF d = {} THEN <<>>
    ELSE LET first == CHOOSE f \in d : \A g \in d : g = f \/ NameLess(f.name, g.name)
         IN <<first>> \o SortedFiles(d \ {first})

Range(q) == {q[i] : i \in 1..Len(q)}
AtMostOne(S) == {{}} \cup {{x} : x \in S}

\* ------------------------------------------------------------ save_image
\* open(tmp, "wb"): creates the temporary file, or truncates a stale one
OpenForWrite(d, name, body, now) ==
    Without(d, {name}) \cup {NewFile(name, body, "empty", now)}

\* f.write: the next piece of the body reaches the file
Written(len) == IF len = "empty" THEN "part" ELSE "full"
WriteMore(d, name, now) ==
    LET f == FileAt(d, name)
    IN Without(d, {name}) \cup {NewFile(name, f.body, Written(f.len), now)}

\* tmp.replace(path): the file moves, with its content and mtime, over path
Replace(d, from, to) ==
    IF from = to THEN d
    ELSE LET f == FileAt(d, from)
         IN Without(d, {from, to}) \cup {NewFile(to, f.body, f.len, f.mtime)}

\* ---------------------------------------------------------------- latest
Symlink(name) == [kind |-> "symlink", target |-> name]
\* shutil.copy2 copies the bytes and the mtime
Copy(f) == [kind |-> "file", body |-> f.body, len |-> f.len, mtime |-> f.mtime]

\* what opening latest gives: the content it resolves to, or None
Resolve(l, d) ==
    IF l.kind = "symlink"
      THEN IF l.target \in NamesOf(d)
             THEN [body |-> FileAt(d, l.target).body, len |-> FileAt(d, l.target).len]
             ELSE None
    ELSE IF l.kind = "file" THEN [body |-> l.body, len |-> l.len]
    ELSE None

\* storage.iterdir() filtered by p.is_file(): the regular files of the directory
\* and the entry latest when it is a regular file or a symlink to one
IsFile(l, d) == l.kind = "file" \/ (l.kind = "symlink" /\ l.target \in NamesOf(d))
LatestEntry(l, d) ==
    IF l.kind = "file" THEN NewFile(LatestName, l.body, l.len, l.mtime)
    ELSE NewFile(LatestName, FileAt(d, l.target).body, FileAt(d, l.target).len,
                 FileAt(d, l.target).mtime)
Entries(l, d) == d \cup (IF IsFile(l, d) THEN {LatestEntry(l, d)} ELSE {})

\* -------------------------------------------------------- rotate_storage
\* ... and p.name != "latest"
Eligible(entries) == {p \in entries : p.name # LatestName}

\* to_remove = files[: len(files) - max_files], when max_files and len(files) > max_files
RemovesNewest(files, max_files) ==
    IF max_files # 0 /\ Len(files) > max_files
      THEN SubSeq(files, max_files + 1, Len(files))
      ELSE <<>>
RemovesMaxFiles(files, max_files) ==
    IF max_files # 0 /\ Len(files) > max_files
      THEN SubSeq(files, 1, max_files)
      ELSE <<>>
ToRemove(files, max_files) ==
    IF max_files # 0 /\ Len(files) > max_files
      THEN SubSeq(files, 1, Len(files) - max_files)
      ELSE <<>>

\* cutoff = datetime.utcnow() - timedelta(days=max_age_days)
Cutoff(now, max_age_days) == now - max_age_days

\* mtime < cutoff
AtOrBeforeCutoff(mtime, cutoff) == mtime <= cutoff
TooOld(mtime, cutoff) == mtime < cutoff

\* rotate_storage without the try around stat and unlink in the age loop: the
\* loop ends at the first file the count loop removed
AgeLoopAborts(entries, max_files, max_age_days, now, fail) ==
    LET files == SortedFiles(Eligible(entries))
        toRemove == Range(ToRemove(files, max_files))
        byCount == {f \in toRemove : f.name \notin fail}
        old == IF max_age_days # 0 /\ byCount = {}
                 THEN {f \in Range(files) : TooOld(f.mtime, Cutoff(now, max_age_days))}
                 ELSE {}
        byAge == {f \in old : f.name \notin fail}
    IN [before |-> entries, max_files |-> max_files, max_age_days |-> max_age_days,
        now |-> now, raised |-> {f.name : f \in (toRemove \cup old) \ (byCount \cup byAge)},
        byCount |-> byCount, byAge |-> byAge, after |-> entries \ (byCount \cup byAge)]

\* rotate_storage without the try around unlink: both loops end at the first
\* file that cannot be deleted
AbortsOnFailure(entries, max_files, max_age_days, now, fail) ==
    LET files == SortedFiles(Eligible(entries))
        toRemove == Range(ToRemove(files, max_files))
        Reached(S) == {f \in S : \A g \in S : g.name \in fail => NameLess(f.name, g.name)}
        byCount == Reached(toRemove)
        old == IF max_age_days # 0 /\ byCount = toRemove
                 THEN {f \in Range(files) \ byCount : TooOld(f.mtime, Cutoff(now, max_age_days))}
                 ELSE {}
        byAge == Reached(old)
    IN [before |-> entries, max_files |-> max_files, max_age_days |-> max_age_days,
        now |-> now, raised |-> {f.name : f \in toRemove \cup old} \cap fail,
        byCount |-> byCount, byAge |-> byAge, after |-> entries \ (byCount \cup byAge)]

\* One call on the entries of a directory at time now; unlink raises for the
\* names in fail.  The age loop walks the list made before the count loop: stat
\* raises, and is caught, for a file the count loop removed.
rotate_storage(entries, max_files, max_age_days, now, fail) ==
    LET files == SortedFiles(Eligible(entries))
        cutoff == Cutoff(now, max_age_days)
        toRemove == Range(ToRemove(files, max_files))
        byCount == {f \in toRemove : f.name \notin fail}
        old == IF max_age_days # 0
                 THEN {f \in Range(files) \ byCount : TooOld(f.mtime, cutoff)}
                 ELSE {}
        byAge == {f \in old : f.name \notin fail}
    IN [before |-> entries, max_files |-> max_files, max_age_days |-> max_age_days,
        now |-> now, raised |-> {f.name : f \in (toRemove \cup old) \ (byCount \cup byAge)},
        byCount |-> byCount, byAge |-> byAge, after |-> entries \ (byCount \cup byAge)]

\* ------------------------------------------------------------ web server
\* list_images: sorted names of the regular files other than latest
list_images(d) == NamesOf(d)
\* download: the bytes of the named file as they are on disk
download(d, name) == [body |-> FileAt(d, name).body, len |-> FileAt(d, name).len]
\* timelapse_trigger: output_path = source_dir / f"timelapse_{timestamp}.mp4"
timelapse_trigger(d, now) == Without(d, {TimelapseName}) \cup {NewFile(TimelapseName, 0, "full", now)}

\* RETRY_COUNT, MAX_FILES, MAX_AGE_DAYS, and whether the file system has symlinks
Configs(retries, maxFiles, maxAge) ==
    [retries : retries, max_files : maxFiles, max_age_days : maxAge, symlinks : BOOLEAN]
MainConfigs == Configs({1}, {0, 1}, {0, 1})


\* ------------------------------------------------------------------ main
\* what a cycle has done for a source: how far it got, the renames into place it
\* made, the item it wrote with the body it fetched, and how latest was updated
NoRun == [s \in Sources |->
            [status |-> "pending", commits |-> 0, item |-> None, body |-> 0, ptr |-> "none"]]

\* except Exception: logger.exception(...), and the for loop goes on
EscapesCycle(s) == "raised"
StopsMain(s) == "exited"
AbortsCycle(s) == "cycle_sleep"
OnException(s) == "next_source"

Raise ==
    /\ run' = [run EXCEPT ![idx].status = "error"]
    /\ pc' = OnException(idx)

\* else: logger.warning(...): after a fetch that failed the iteration is over
SweepsAfterFailedFetch == "rotate"
OnFetchFailed == "next_source"

\* except Exception around the update of latest: logger.exception(...), and the
\* iteration goes on with rotate_storage
SkipsSweep == "next_source"
OnLatestFailure == "rotate"

\* for s in sources: the loop takes the next source and calls try_fetch
BeginSource ==
    /\ pc = "source_start"
    /\ processed' = Append(processed, idx)
    /\ StartFetch
    /\ pc' = "get"
    /\ UNCHANGED <<startVars, cfg, clock, dir, latest, cycle, idx, dest, run, sweep>>

\* if resp is not None: ext, ts, fname, dest; else: the warning.  The history of
\* the finished try_fetch call is dropped.
AfterFetch ==
    /\ pc = "fetched"
    /\ IF resp = None
         THEN /\ run' = [run EXCEPT ![idx].status = "fetch_failed"]
              /\ dest' = dest
              /\ pc' = OnFetchFailed
         ELSE /\ dest' = filename_for_ts(clock, guess_extension(resp.ctype, UrlSuffix(idx)))
              /\ run' = [run EXCEPT ![idx].status = "fetched", ![idx].body = resp.body]
              /\ pc' = "save_open"
    /\ attempt' = 0
    /\ gets' = 0
    /\ lastGet' = None
    /\ sleeps' = <<>>
    /\ UNCHANGED <<startVars, cfg, clock, dir, latest, cycle, idx, resp, processed, sweep>>

\* save_image: with open(tmp, "wb") as f
SaveOpen ==
    /\ pc = "save_open"
    /\ dir' = [dir EXCEPT ![idx] = OpenForWrite(@, TmpPath(dest), resp.body, clock)]
    /\ pc' = "save_write"
    /\ UNCHANGED <<startVars, cfg, clock, latest, cycle, idx, fetchVars, dest, run, processed, sweep>>

\* save_image: f.write(content), which reaches the disk piece by piece
\* and may raise midway (disk full), leaving what it wrote
SaveWrite ==
    /\ pc = "save_write"
    /\ \/ /\ dir' = [dir EXCEPT ![idx] = WriteMore(@, TmpPath(dest), clock)]
          /\ pc' = IF Written(FileAt(dir[idx], TmpPath(dest)).len) = "full"
                     THEN "save_replace" ELSE "save_write"
          /\ run' = run
       \/ /\ FileAt(dir[idx], TmpPath(dest)).len = "part"
          /\ Raise
          /\ dir' = dir
    /\ UNCHANGED <<startVars, cfg, clock, latest, cycle, idx, fetchVars, dest, processed, sweep>>

\* save_image: tmp.replace(path)
SaveReplace ==
    /\ pc = "save_replace"
    /\ dir' = [dir EXCEPT ![idx] = Replace(@, TmpPath(dest), dest)]
    /\ run' = [run EXCEPT ![idx].status = "saved", ![idx].item = dest,
                          ![idx].commits = @ + 1]
    /\ pc' = "latest_unlink"
    /\ UNCHANGED <<startVars, cfg, clock, latest, cycle, idx, fetchVars, dest, processed, sweep>>

\* if latest.exists() or latest.is_symlink(): latest.unlink()
LatestUnlink ==
    /\ pc = "latest_unlink"
    /\ latest' = [latest EXCEPT ![idx] = None]
    /\ pc' = "latest_symlink"
    /\ UNCHANGED <<startVars, cfg, clock, dir, cycle, idx, fetchVars, dest, run, processed, sweep>>

\* latest.symlink_to(dest.name), which raises where the file system has no symlinks
LatestSymlink ==
    /\ pc = "latest_symlink"
    /\ IF cfg.symlinks
         THEN /\ latest' = [latest EXCEPT ![idx] = Symlink(dest)]
              /\ run' = [run EXCEPT ![idx].ptr = "symlink"]
              /\ pc' = "rotate"
         ELSE /\ latest' = latest
              /\ run' = run
              /\ pc' = "latest_copy"
    /\ UNCHANGED <<startVars, cfg, clock, dir, cycle, idx, fetchVars, dest, processed, sweep>>

\* shutil.copy2(dest, sdir / "latest"); a failure is logged, whatever it left behind
LatestCopy ==
    /\ pc = "latest_copy"
    /\ LET f == FileAt(dir[idx], dest)
       IN \/ /\ latest' = [latest EXCEPT ![idx] = Copy(f)]
             /\ run' = [run EXCEPT ![idx].ptr = "copy"]
             /\ pc' = "rotate"
          \/ /\ latest' = latest
             /\ run' = [run EXCEPT ![idx].ptr = "failed"]
             /\ pc' = OnLatestFailure
    /\ UNCHANGED <<startVars, cfg, clock, dir, cycle, idx, fetchVars, dest, processed, sweep>>

\* rotate_storage(sdir, max_files=MAX_FILES, max_age_days=MAX_AGE_DAYS); at most
\* one file of the directory cannot be deleted
Rotate ==
    /\ pc = "rotate"
    /\ \/ \E fail \in AtMostOne(NamesOf(dir[idx])) :
            LET r == rotate_storage(Entries(latest[idx], dir[idx]), cfg.max_files,
                                    cfg.max_age_days, clock, fail)
            IN /\ dir' = [dir EXCEPT ![idx] = Eligible(r.after)]
               /\ latest' = [latest EXCEPT ![idx] =
                               IF IsFile(@, dir[idx]) /\ LatestName \notin NamesOf(r.after)
                                 THEN None ELSE @]
               /\ sweep' = Append(sweep, r)
               /\ run' = [run EXCEPT ![idx].status = "swept"]
               /\ pc' = "next_source"
       \/ /\ Raise          \* storage.iterdir() raises
          /\ UNCHANGED <<dir, latest, sweep>>
    /\ UNCHANGED <<startVars, cfg, clock, cycle, idx, fetchVars, dest, processed>>

\* the for loop moves on; after the last source the cycle is over.  The locals
\* of the finished iteration are dropped.
NextSource ==
    /\ pc = "next_source"
    /\ IF idx < NumSources
         THEN /\ idx' = idx + 1
              /\ pc' = "source_start"
         ELSE /\ idx' = idx
              /\ pc' = "cycle_sleep"
    /\ sweep' = <<>>
    /\ resp' = None
    /\ dest' = None
    /\ UNCHANGED <<startVars, cfg, clock, dir, latest, cycle, attempt, gets, lastGet, sleeps, run,
                   processed>>

\* elapsed, sleep_for, time.sleep(sleep_for) when positive; while True starts over
CycleSleep ==
    /\ pc = "cycle_sleep"
    /\ cycle < MaxCycles
    /\ \E d \in {0, 1} : clock' = Later(clock, d)
    /\ cycle' = cycle + 1
    /\ idx' = 1
    /\ run' = NoRun
    /\ processed' = <<>>
    /\ pc' = "source_start"
    /\ UNCHANGED <<startVars, cfg, dir, latest, fetchVars, dest, sweep>>

\* What main finds on disk when it starts: for the first source an empty
\* directory, or one where the web server has written a time-lapse video.
InitDirs ==
    {[s \in Sources |-> IF s = 1 THEN d ELSE {}] : d \in {{}, timelapse_trigger({}, 0)}}

Init ==
    /\ cfg \in MainConfigs
    /\ clock = 0
    /\ dir \in InitDirs
    /\ latest = [s \in Sources |-> None]
    /\ pc = "source_start"
    /\ cycle = 1
    /\ idx = 1
    /\ attempt = 0
    /\ resp = None
    /\ dest = None
    /\ gets = 0
    /\ lastGet = None
    /\ sleeps = <<>>
    /\ run = NoRun
    /\ processed = <<>>
    /\ sweep = <<>>
    /\ env = None
    /\ sources = <<>>
    /\ made = {}
    /\ ret = None
    /\ start = 0

Next ==
    \/ BeginSource
    \/ FetchAttempt
    \/ FetchSleep
    \/ AfterFetch
    \/ SaveOpen
    \/ SaveWrite
    \/ SaveReplace
    \/ LatestUnlink
    \/ LatestSymlink
    \/ LatestCopy
    \/ Rotate
    \/ NextSource
    \/ CycleSleep

Spec == Init /\ [][Next]_vars

\* main running on: while True has no exit, so after the cycles counted the loop
\* goes on with cycles like the last one
CycleAgain ==
    /\ pc = "cycle_sleep"
    /\ \E d \in {0, 1} : clock' = Later(clock, d)
    /\ cycle' = IF cycle < MaxCycles THEN cycle + 1 ELSE cycle
    /\ idx' = 1
    /\ run' = NoRun
    /\ processed' = <<>>
    /\ pc' = "source_start"
    /\ UNCHANGED <<startVars, cfg, dir, latest, fetchVars, dest, sweep>>

NextLoop ==
    \/ BeginSource
    \/ FetchAttempt
    \/ FetchSleep
    \/ AfterFetch
    \/ SaveOpen
    \/ SaveWrite
    \/ SaveReplace
    \/ LatestUnlink
    \/ LatestSymlink
    \/ LatestCopy
    \/ Rotate
    \/ NextSource
    \/ CycleAgain

\* main long after its start, with both retention rules on: the clock is at the
\* last day of the model and the cycles counted are over
InitLoop ==
    /\ cfg \in Configs({1}, {1}, {1})
    /\ clock = MaxClock
    /\ dir = [s \in Sources |-> {}]
    /\ latest = [s \in Sources |-> None]
    /\ pc = "source_start"
    /\ cycle = MaxCycles
    /\ idx = 1
    /\ attempt = 0
    /\ resp = None
    /\ dest = None
    /\ gets = 0
    /\ lastGet = None
    /\ sleeps = <<>>
    /\ run = NoRun
    /\ processed = <<>>
    /\ sweep = <<>>
    /\ env = None
    /\ sources = <<>>
    /\ made = {}
    /\ ret = None
    /\ start = 0

\* requests.get, the file operations and time.sleep all return or raise
FairSpecLoop == InitLoop /\ [][NextLoop]_vars /\ WF_vars(NextLoop)

\* rotate_storage called on its own, and called again at once ------------------
\* files a directory may hold: written in full at or after their timestamp;
\* the first day has an item of either extension, the later days of one
SweepFiles ==
    {f \in {NewFile(filename_for_ts(ts, ext), 1, "full", m) :
              ts \in 0..MaxClock, ext \in {".jpg", ".png"}, m \in 0..MaxClock} :
        f.mtime >= f.name.ts /\ (f.name.ext = ".png" => f.name.ts = 0)}
RECURSIVE DirsUpTo(_)
DirsUpTo(n) ==
    IF n = 0 THEN {{}}
    ELSE LET smaller == DirsUpTo(n - 1)
         IN smaller \cup {d \cup {f} : d \in smaller,
                                        f \in SweepFiles}
SweepDirs == {d \in DirsUpTo(MaxDirFiles) : \A f, g \in d : f.name = g.name => f = g}

InitSweep ==
    /\ cfg \in Configs({0}, 0..MaxDirFiles, 0..MaxAgeCfg)
    /\ cfg.symlinks
    /\ clock = MaxClock
    /\ \E d \in SweepDirs :
         /\ dir = [s \in Sources |-> IF s = 1 THEN d ELSE {}]
         /\ \E l \in {None} \cup {Symlink(f.name) : f \in d} :
              latest = [s \in Sources |-> IF s = 1 THEN l ELSE None]
    /\ pc = "rotate"
    /\ cycle = 1
    /\ idx = 1
    /\ attempt = 0
    /\ resp = None
    /\ dest = None
    /\ gets = 0
    /\ lastGet = None
    /\ sleeps = <<>>
    /\ run = NoRun
    /\ processed = <<1>>
    /\ sweep = <<>>
    /\ env = None
    /\ sources = <<>>
    /\ made = {}
    /\ ret = None
    /\ start = 0

\* the caller runs the sweeper a second time: same directory, limits and time
Resweep ==
    /\ pc = "next_source"
    /\ Len(sweep) = 1
    /\ pc' = "rotate"
    /\ UNCHANGED <<startVars, cfg, clock, dir, latest, cycle, idx, fetchVars, dest, run, processed,
                   sweep>>

NextSweep == Rotate \/ Resweep

SpecSweep == InitSweep /\ [][NextSweep]_vars

\* try_fetch called on its own
InitFetch ==
    /\ cfg \in Configs(0..MaxRetries, {0}, {0})
    /\ cfg.symlinks
    /\ clock = 0
    /\ dir = [s \in Sources |-> {}]
    /\ latest = [s \in Sources |-> None]
    /\ pc = "get"
    /\ cycle = 1
    /\ idx \in Sources
    /\ attempt = 0
    /\ resp = None
    /\ dest = None
    /\ gets = 0
    /\ lastGet = None
    /\ sleeps = <<>>
    /\ run = NoRun
    /\ processed = [i \in 1..idx |-> i]
    /\ sweep = <<>>
    /\ env = None
    /\ sources = <<>>
    /\ made = {}
    /\ ret = None
    /\ start = 0

NextFetch == FetchAttempt \/ FetchSleep

SpecFetch == InitFetch /\ [][NextFetch]_vars
FairSpecFetch == SpecFetch /\ WF_vars(NextFetch)

\* ------------------------------------------------------------------ text
\* A text is the sequence of its characters; a character is a string naming it.
MaxEntries == 2     \* SOURCES holds at most this many entries

EXIT_NO_SOURCES == 2

AsciiLetters ==
    {"a", "b", "c", "d", "e", "f", "g", "h", "i", "j", "k", "l", "m", "n", "o", "p", "q",
     "r", "s", "t", "u", "v", "w", "x", "y", "z"}
Digits == {"0", "1", "2", "3", "4", "5", "6", "7", "8", "9"}
\* a letter outside ASCII, LATIN SMALL LETTER O WITH STROKE
OSlash == "U+00F8"
\* str.isalnum: true of the letters and digits of every script
isalnum(ch) == ch \in AsciiLetters \cup Digits \cup {OSlash}
\* str.strip with no argument removes white space
IsSpace(ch) == ch = " "

\* os.environ.get gives None for a variable that is not set: here a text of the
\* one pseudo-character "None", which no text of the model holds
Unset == <<"None">>
Truthy(x) == x # Unset /\ x # <<>>
Last(s) == s[Len(s)]
Contains(s, ch) == \E i \in 1..Len(s) : s[i] = ch
StartsWith(s, pre) == Len(s) >= Len(pre) /\ SubSeq(s, 1, Len(pre)) = pre
Drop(s, n) == SubSeq(s, n + 1, Len(s))

\* s.replace(from, to), for single characters
replace(s, from, to) == [i \in 1..Len(s) |-> IF s[i] = from THEN to ELSE s[i]]

\* s.split(sep): the pieces between the occurrences of sep, found left to right
RECURSIVE SplitFrom(_, _, _)
SplitFrom(s, sep, piece) ==
    IF s = <<>> THEN <<piece>>
    ELSE IF StartsWith(s, sep) THEN <<piece>> \o SplitFrom(Drop(s, Len(sep)), sep, <<>>)
    ELSE SplitFrom(Tail(s), sep, Append(piece, Head(s)))
split(s, sep) == SplitFrom(s, sep, <<>>)

\* s.split(sep, 1) where sep occurs in s: what precedes the first sep, and the rest
RECURSIVE Before(_, _)
Before(s, ch) == IF s = <<>> \/ Head(s) = ch THEN <<>> ELSE <<Head(s)>> \o Before(Tail(s), ch)
After(s, ch) == Drop(s, Len(Before(s, ch)) + 1)

RECURSIVE lstrip(_)
lstrip(s) == IF s # <<>> /\ IsSpace(Head(s)) THEN lstrip(Tail(s)) ELSE s
RECURSIVE rstrip(_)
rstrip(s) == IF s # <<>> /\ IsSpace(Last(s)) THEN rstrip(SubSeq(s, 1, Len(s) - 1)) ELSE s
strip(s) == rstrip(lstrip(s))

\* str(n) for a natural number
Digit(d) == CHOOSE c \in Digits : c = ToString(d)
RECURSIVE Decimal(_)
Decimal(n) == IF n < 10 THEN <<Digit(n)>> ELSE Decimal(n \div 10) \o <<Digit(n % 10)>>

\* --------------------------------------------------------- parse_sources
KeepsEverything(s) == s
slugify_id(s) ==
    [i \in 1..Len(s) |-> IF isalnum(s[i]) \/ s[i] \in {"-", "_"} THEN s[i] ELSE "_"]

\* f"camera_{n}"
CameraId(n) == <<"c", "a", "m", "e", "r", "a", "_">> \o Decimal(n)
DefaultId == <<"c", "a", "m", "e", "r", "a">>

\* parts = [p.strip() for p in raw.replace(";", ",").split(",") if p.strip()]
Parts(raw) == SelectSeq([i \in 1..Len(split(replace(raw, ";", ","), <<",">>)) |->
                            strip(split(replace(raw, ";", ","), <<",">>)[i])],
                        LAMBDA p : p # <<>>)

\* url.split("//")[-1].split("/")[0]
HostOf(url) == split(Last(split(url, <<"/", "/">>)), <<"/">>)[1]

\* one pass of for p in parts, with n sources appended so far
ParsePart(p, n) ==
    LET sid == IF Contains(p, "=") THEN slugify_id(strip(Before(p, "=")))
               ELSE slugify_id(HostOf(p))
        url == IF Contains(p, "=") THEN strip(After(p, "=")) ELSE p
    IN [id |-> IF sid = <<>> THEN CameraId(n + 1) ELSE sid, url |-> url]

\* sdir = STORAGE_ROOT / s["id"] / "images"
AttachDir(s) == [id |-> s.id, url |-> s.url, dir |-> <<"STORAGE_ROOT", s.id, "images">>]

parse_sources(e) ==
    IF Truthy(e.SOURCES)
      THEN [i \in 1..Len(Parts(e.SOURCES)) |-> AttachDir(ParsePart(Parts(e.SOURCES)[i], i - 1))]
    ELSE IF Truthy(e.IMAGE_URL)
      THEN <<AttachDir([id |-> slugify_id(IF Truthy(e.SOURCE_ID) THEN e.SOURCE_ID
                                          ELSE IF Truthy(e.STORAGE_DIR_name)
                                                 THEN e.STORAGE_DIR_name
                                          ELSE DefaultId),
                        url |-> e.IMAGE_URL])>>
    ELSE <<>>

\* ---------------------------------------------------- what is configured
\* urls: http://<host><path><query>
Hosts == {<<"x">>, <<"x", ".", "y">>}
Paths == {<<>>, <<"/", "a", ".", "j">>}
Queries == {<<>>, <<"?", "k", "=", "1">>}
Urls == [host : Hosts, path : Paths, query : Queries]
UrlText(u) == <<"h", "t", "t", "p", ":", "/", "/">> \o u.host \o u.path \o u.query

\* ids an operator may write
Ids == {<<"a">>, <<"a", "#">>, <<OSlash>>, <<>>}
\* entries: a bare url, or an id before a url without path
Entries_ == {c \in [id : Ids \cup {Unset}, url : Urls] : c.id # Unset => c.url.path = <<>>}
EntryText(c) == IF c.id = Unset THEN UrlText(c.url) ELSE c.id \o <<"=">> \o UrlText(c.url)

RECURSIVE Join(_, _)
Join(texts, sep) ==
    IF texts = <<>> THEN <<>>
    ELSE IF Len(texts) = 1 THEN texts[1]
    ELSE texts[1] \o sep \o Join(Tail(texts), sep)

Separators == {<<",">>, <<" ", ";", " ">>}
RECURSIVE EntryLists(_)
EntryLists(n) ==
    IF n = 0 THEN {<<>>}
    ELSE EntryLists(n - 1) \cup
         {Append(l, c) : l \in {m \in EntryLists(n - 1) : Len(m) = n - 1}, c \in Entries_}

\* The environments main starts in.  configured is not read by the program: it
\* records the entries SOURCES was written from.
MultiEnvs ==
    {[SOURCES |-> Join([i \in 1..Len(l) |-> EntryText(l[i])], sep), IMAGE_URL |-> Unset,
      SOURCE_ID |-> Unset, STORAGE_DIR_name |-> <<"i", "m", "g">>, configured |-> l] :
        l \in EntryLists(MaxEntries) \ {<<>>}, sep \in Separators}
SingleEnvs ==
    {[SOURCES |-> Unset, IMAGE_URL |-> UrlText(u), SOURCE_ID |-> id, STORAGE_DIR_name |-> d,
      configured |-> <<[id |-> id, url |-> u]>>] :
        u \in Urls, id \in Ids \cup {Unset}, d \in {<<"i", "m", "g">>, <<>>}}
EmptyEnvs ==
    {[SOURCES |-> raw, IMAGE_URL |-> img, SOURCE_ID |-> id, STORAGE_DIR_name |-> <<"i", "m", "g">>,
      configured |-> <<>>] :
        raw \in {Unset, <<>>}, img \in {Unset, <<>>}, id \in {Unset, <<"a">>}}
Envs == MultiEnvs \cup SingleEnvs \cup EmptyEnvs

\* ---------------------------------------------------------- main, startup
\* if not sources
SourcesAlwaysFound(srcs) == FALSE
NoSources(srcs) == srcs = <<>>

\* sources = parse_sources()
ParseSources ==
    /\ pc = "start"
    /\ sources' = parse_sources(env)
    /\ pc' = "parsed"
    /\ UNCHANGED <<cfg, clock, dir, latest, cycle, idx, attempt, resp, dest, gets, lastGet,
                   sleeps, run, processed, sweep, env, made, ret, start>>

\* if not sources: logger.error(...); return 2
ReturnNoSources ==
    /\ pc = "parsed"
    /\ NoSources(sources)
    /\ ret' = EXIT_NO_SOURCES
    /\ pc' = "exited"
    /\ UNCHANGED <<cfg, clock, dir, latest, cycle, idx, attempt, resp, dest, gets, lastGet,
                   sleeps, run, processed, sweep, env, sources, made, start>>

\* for s in sources: ensure_storage_dir(s["dir"]); then while True
EnsureStorageDirs ==
    /\ pc = "parsed"
    /\ ~NoSources(sources)
    /\ made' = {sources[i].dir : i \in 1..Len(sources)}
    /\ pc' = "source_start"
    /\ UNCHANGED <<cfg, clock, dir, latest, cycle, idx, attempt, resp, dest, gets, lastGet,
                   sleeps, run, processed, sweep, env, sources, ret, start>>

InitStart ==
    /\ env \in Envs
    /\ sources = <<>>
    /\ made = {}
    /\ ret = None
    /\ start = 0
    /\ cfg \in Configs({0}, {0}, {0})
    /\ cfg.symlinks
    /\ clock = 0
    /\ dir = [s \in Sources |-> {}]
    /\ latest = [s \in Sources |-> None]
    /\ pc = "start"
    /\ cycle = 1
    /\ idx = 1
    /\ attempt = 0
    /\ resp = None
    /\ dest = None
    /\ gets = 0
    /\ lastGet = None
    /\ sleeps = <<>>
    /\ run = NoRun
    /\ processed = <<>>
    /\ sweep = <<>>

NextStart == ParseSources \/ ReturnNoSources \/ EnsureStorageDirs

SpecStart == InitStart /\ [][NextStart]_vars

\* ------------------------------------------- guess_extension, called alone
\* the text a sequence of characters or of pieces spells
RECURSIVE Text(_)
Text(s) == IF s = <<>> THEN "" ELSE Head(s) \o Text(Tail(s))

\* A content-type header is a sequence of pieces: a media type, a white space,
\* the ";" and a parameter.  str.lower on a piece:
Cased ==
    {<<"IMAGE/JPEG", "image/jpeg">>, <<"IMAGE/JPG", "image/jpg">>, <<"IMAGE/PNG", "image/png">>,
     <<"IMAGE/GIF", "image/gif">>, <<"IMAGE/WEBP", "image/webp">>, <<"TEXT/HTML", "text/html">>}
lower(s) ==
    [i \in 1..Len(s) |-> IF \E c \in Cased : c[1] = s[i]
                           THEN (CHOOSE c \in Cased : c[1] = s[i])[2] ELSE s[i]]

\* ct = resp.headers.get("content-type", "").split(";")[0].strip().lower()
HeaderAsSent(header) == Text(header)
ContentType(header) == Text(lower(strip(split(header, <<";">>)[1])))

\* PurePath.name: the last component; empty components and a trailing "/" do not count
PathName(s) ==
    LET comps == SelectSeq(split(s, <<"/">>), LAMBDA c : c # <<>>)
    IN IF comps = <<>> THEN <<>> ELSE Last(comps)
\* PurePath.suffix: from the last "." of the name, unless it starts or ends the name
RECURSIVE rfind(_, _)
rfind(s, ch) == IF s = <<>> THEN 0 ELSE IF Last(s) = ch THEN Len(s)
                ELSE rfind(SubSeq(s, 1, Len(s) - 1), ch)
Suffix(name) ==
    IF 1 < rfind(name, ".") /\ rfind(name, ".") < Len(name)
      THEN Drop(name, rfind(name, ".") - 1) ELSE <<>>

\* parsed_ext = Path(url.split("?")[0]).suffix
ParsedExt(url) == Text(Suffix(PathName(split(url, <<"?">>)[1])))

\* the content-type headers a server sends: sent is FALSE when it sends none
Media == {"image/jpeg", "image/jpg", "image/png", "image/gif", "image/webp", "text/html"}
Headers == [sent : BOOLEAN, media : Media, upper : BOOLEAN, spaced : BOOLEAN, params : BOOLEAN]
HeaderText(h) ==
    IF ~h.sent THEN <<>>
    ELSE (IF h.spaced THEN <<" ">> ELSE <<>>)
         \o <<IF h.upper THEN (CHOOSE c \in Cased : c[2] = h.media)[1] ELSE h.media>>
         \o (IF h.spaced THEN <<" ">> ELSE <<>>)
         \o (IF h.params THEN <<";", " ", "charset=utf-8">> ELSE <<>>)
\* the urls guess_extension is given
ExtPaths == Paths \cup {<<"/">>, <<"/", "a">>, <<"/", "a", ".", "j", "/">>, <<"/", ".", "j">>}
ExtQueries == Queries \cup {<<"?", "k", ".", "p">>}
ExtUrls == [host : Hosts, path : ExtPaths, query : ExtQueries]

CallGuessExtension ==
    /\ pc = "guess_extension"
    /\ ret' = guess_extension(ContentType(env.headers), ParsedExt(env.url))
    /\ pc' = "returned"
    /\ UNCHANGED <<cfg, clock, dir, latest, cycle, idx, attempt, resp, dest, gets, lastGet,
                   sleeps, run, processed, sweep, env, sources, made, start>>

\* headers and url are the arguments; h and u record what they were written from
InitExt ==
    /\ \E h \in {g \in Headers : ~g.sent => g = [sent |-> FALSE, media |-> "text/html",
                                                 upper |-> FALSE, spaced |-> FALSE,
                                                 params |-> FALSE]} :
       \E u \in ExtUrls :
         env = [headers |-> HeaderText(h), url |-> UrlText(u), h |-> h, u |-> u]
    /\ sources = <<>>
    /\ made = {}
    /\ ret = None
    /\ start = 0
    /\ cfg \in Configs({0}, {0}, {0})
    /\ cfg.symlinks
    /\ clock = 0
    /\ dir = [s \in Sources |-> {}]
    /\ latest = [s \in Sources |-> None]
    /\ pc = "guess_extension"
    /\ cycle = 1
    /\ idx = 1
    /\ attempt = 0
    /\ resp = None
    /\ dest = None
    /\ gets = 0
    /\ lastGet = None
    /\ sleeps = <<>>
    /\ run = NoRun
    /\ processed = <<>>
    /\ sweep = <<>>

NextExt == CallGuessExtension

SpecExt == InitExt /\ [][NextExt]_vars

\* ------------------------------------------- filename_for_ts, called alone
\* a number in decimal, filled with zeros on the left up to width w
Unpadded(n, w) == Decimal(n)
RECURSIVE ZeroFill(_, _)
ZeroFill(s, w) == IF Len(s) >= w THEN s ELSE ZeroFill(<<"0">> \o s, w)
Pad(n, w) == ZeroFill(Decimal(n), w)

\* ts.strftime("%Y%m%d_%H%M%S")
strftime(ts) ==
    Pad(ts.year, 4) \o Pad(ts.month, 2) \o Pad(ts.day, 2) \o <<"_">>
    \o Pad(ts.hour, 2) \o Pad(ts.minute, 2) \o Pad(ts.second, 2)

\* the text of filename_for_ts(ts, ext): ts.strftime("%Y%m%d_%H%M%S") + ext
FilenameText(ts, ext) == strftime(ts) \o ext

\* the timestamps datetime.utcnow() gives, and the extensions guess_extension gives
Timestamps ==
    [year : {1970, 2020, 9999}, month : {1, 12}, day : {2, 28},
     hour : {0, 3, 23}, minute : {4, 59}, second : {0, 5}]
ExtTexts == {<<".", "j", "p", "g">>, <<".", "i", "m", "g">>}

CallFilenameForTs ==
    /\ pc = "filename_for_ts"
    /\ ret' = FilenameText(env.ts, env.ext)
    /\ pc' = "returned"
    /\ UNCHANGED <<cfg, clock, dir, latest, cycle, idx, attempt, resp, dest, gets, lastGet,
                   sleeps, run, processed, sweep, env, sources, made, start>>

InitName ==
    /\ env \in [ts : Timestamps, ext : ExtTexts]
    /\ sources = <<>>
    /\ made = {}
    /\ ret = None
    /\ start = 0
    /\ cfg \in Configs({0}, {0}, {0})
    /\ cfg.symlinks
    /\ clock = 0
    /\ dir = [s \in Sources |-> {}]
    /\ latest = [s \in Sources |-> None]
    /\ pc = "filename_for_ts"
    /\ cycle = 1
    /\ idx = 1
    /\ attempt = 0
    /\ resp = None
    /\ dest = None
    /\ gets = 0
    /\ lastGet = None
    /\ sleeps = <<>>
    /\ run = NoRun
    /\ processed = <<>>
    /\ sweep = <<>>

NextName == CallFilenameForTs

SpecName == InitName /\ [][NextName]_vars

\* ---------------------------------------- generate_timelapse, called alone
MaxImages == 2     \* the image directory holds at most this many archived files

\* the characters of file names and dates, in the order of their code points
CodePoints ==
    <<".", "0", "1", "2", "3", "4", "5", "6", "7", "8", "9", "_", "a", "b", "c", "d", "e",
      "f", "g", "h", "i", "j", "k", "l", "m", "n", "o", "p", "q", "r", "s", "t", "u", "v",
      "w", "x", "y", "z">>
ord(ch) == CHOOSE i \in 1..Len(CodePoints) : CodePoints[i] = ch
\* a <= b on str: by the first character that differs, a proper prefix being smaller
RECURSIVE StrLeq(_, _)
StrLeq(a, b) ==
    IF a = <<>> THEN TRUE
    ELSE IF b = <<>> THEN FALSE
    ELSE IF Head(a) = Head(b) THEN StrLeq(Tail(a), Tail(b))
    ELSE ord(Head(a)) < ord(Head(b))
\* PurePath.stem: the name without its suffix
Stem(name) == SubSeq(name, 1, Len(name) - Len(Suffix(name)))
\* p.suffix.lower() in (".jpg", ".jpeg", ".png", ".gif", ".webp")
ImageSuffixes == {".jpg", ".jpeg", ".png", ".gif", ".webp"}
IsImage(name) == Text(lower(Suffix(name))) \in ImageSuffixes
\* sorted() of the paths of one directory: by name
RECURSIVE sorted(_)
sorted(S) ==
    IF S = {} THEN <<>>
    ELSE LET m == CHOOSE x \in S : \A y \in S : StrLeq(x, y)
         IN <<m>> \o sorted(S \ {m})

\* the list images of generate_timelapse once both date filters are applied
SelectImages(names, start_date, end_date) ==
    LET images == sorted({p \in names : IsImage(p)})
        fromStart == IF Truthy(start_date)
                       THEN SelectSeq(images, LAMBDA p : StrLeq(start_date, Stem(p)))
                       ELSE images
    IN IF Truthy(end_date)
         THEN SelectSeq(fromStart, LAMBDA p : StrLeq(Stem(p), end_date))
         ELSE fromStart

\* the archived files of the image directory: three days, two times a day
LapseTimestamps ==
    [year : {2020}, month : {1}, day : {1, 2, 3}, hour : {0, 23}, minute : {0}, second : {0}]
LapseFiles == [ts : LapseTimestamps, ext : ExtTexts]
LatestText == <<"l", "a", "t", "e", "s", "t", ".", "j", "p", "g">>
\* YYYYMMDD of a day of January 2020
DateText(day) == Pad(2020, 4) \o Pad(1, 2) \o Pad(day, 2)
LapseDates == {Unset} \cup {DateText(d) : d \in {1, 2, 3}}

\* generate_timelapse on a directory that exists: the images selected are encoded
\* by ffmpeg, which succeeds or fails (encoded); no image selected gives False
CallGenerateTimelapse ==
    /\ pc = "generate_timelapse"
    /\ \E encoded \in BOOLEAN :
         LET images == SelectImages(env.names, env.start_date, env.end_date)
         IN ret' = [images |-> images, result |-> images # <<>> /\ encoded]
    /\ pc' = "returned"
    /\ UNCHANGED <<cfg, clock, dir, latest, cycle, idx, attempt, resp, dest, gets, lastGet,
                   sleeps, run, processed, sweep, env, sources, made, start>>

\* names are the entries of image_dir, the archived files and the latest pointer
InitLapse ==
    /\ \E files \in {F \in SUBSET LapseFiles : Cardinality(F) <= MaxImages} :
       \E pointer \in BOOLEAN :
       \E s, e \in LapseDates :
         env = [names |-> {FilenameText(f.ts, f.ext) : f \in files}
                           \cup (IF pointer THEN {LatestText} ELSE {}),
                start_date |-> s, end_date |-> e]
    /\ sources = <<>>
    /\ made = {}
    /\ ret = None
    /\ start = 0
    /\ cfg \in Configs({0}, {0}, {0})
    /\ cfg.symlinks
    /\ clock = 0
    /\ dir = [s \in Sources |-> {}]
    /\ latest = [s \in Sources |-> None]
    /\ pc = "generate_timelapse"
    /\ cycle = 1
    /\ idx = 1
    /\ attempt = 0
    /\ resp = None
    /\ dest = None
    /\ gets = 0
    /\ lastGet = None
    /\ sleeps = <<>>
    /\ run = NoRun
    /\ processed = <<>>
    /\ sweep = <<>>

NextLapse == CallGenerateTimelapse

SpecLapse == InitLapse /\ [][NextLapse]_vars

\* ------------------------------------------------- main, the pace of cycles
\* The loop of main with time in seconds: clock is time.time(), a source takes
\* some seconds to process, whatever becomes of it, and sleeps holds the
\* time.sleep calls of main.
MaxInterval == 3   \* INTERVAL_SECONDS is at most this
MaxTook == 2       \* seconds one source takes at most

\* sleep_for = INTERVAL_SECONDS - elapsed
SleepsWholeInterval(interval, elapsed) == interval
sleep_for(interval, elapsed) == interval - elapsed

\* while True: start = time.time()
PaceStart ==
    /\ pc = "cycle_start"
    /\ start' = clock
    /\ idx' = 1
    /\ processed' = <<>>
    /\ pc' = "source"
    /\ UNCHANGED <<cfg, clock, dir, latest, cycle, attempt, resp, dest, gets, lastGet,
                   sleeps, run, sweep, env, sources, made, ret>>

\* for s in sources: the body of the loop for one source, from try_fetch to the
\* except of main; the next source comes when it is over
PaceSource ==
    /\ pc = "source"
    /\ \E took \in 0..MaxTook : clock' = clock + took
    /\ processed' = Append(processed, idx)
    /\ IF idx < NumSources
         THEN idx' = idx + 1 /\ pc' = "source"
         ELSE idx' = idx /\ pc' = "pace"
    /\ UNCHANGED <<cfg, dir, latest, cycle, attempt, resp, dest, gets, lastGet,
                   sleeps, run, sweep, env, sources, made, ret, start>>

\* elapsed = time.time() - start; sleep_for = INTERVAL_SECONDS - elapsed;
\* if sleep_for > 0: time.sleep(sleep_for)
PaceSleep ==
    /\ pc = "pace"
    /\ cycle < MaxCycles
    /\ LET elapsed == clock - start
           s == sleep_for(env.INTERVAL_SECONDS, elapsed)
       IN IF s > 0
            THEN clock' = clock + s /\ sleeps' = Append(sleeps, s)
            ELSE clock' = clock /\ sleeps' = sleeps
    /\ cycle' = cycle + 1
    /\ pc' = "cycle_start"
    /\ UNCHANGED <<cfg, dir, latest, idx, attempt, resp, dest, gets, lastGet,
                   run, processed, sweep, env, sources, made, ret, start>>

InitPace ==
    /\ env \in [INTERVAL_SECONDS : 0..MaxInterval]
    /\ sources = <<>>
    /\ made = {}
    /\ ret = None
    /\ start = 0
    /\ cfg \in Configs({0}, {0}, {0})
    /\ cfg.symlinks
    /\ clock = 0
    /\ dir = [s \in Sources |-> {}]
    /\ latest = [s \in Sources |-> None]
    /\ pc = "cycle_start"
    /\ cycle = 1
    /\ idx = 1
    /\ attempt = 0
    /\ resp = None
    /\ dest = None
    /\ gets = 0
    /\ lastGet = None
    /\ sleeps = <<>>
    /\ run = NoRun
    /\ processed = <<>>
    /\ sweep = <<>>

NextPace == PaceStart \/ PaceSource \/ PaceSleep

SpecPace == InitPace /\ [][NextPace]_vars

\* ================================================================ claims
FinalFiles(d) == {f \in d : ~f.name.tmp /\ f.name # TimelapseName}
AfterSave == {"latest_unlink", "latest_symlink", "latest_copy", "rotate"}

\* C1: during and after save_image the file under the final name, when there is
\* one, holds a fetched body in full, never zero bytes or a part of it; once
\* save_image has returned it is there and holds exactly the body just fetched.
C1_FinalNameHoldsFullBody ==
    /\ \A s \in Sources : \A f \in FinalFiles(dir[s]) :
         f.len = "full" /\ f.body \in {Body(c) : c \in 1..cycle}
    /\ pc \in AfterSave =>
         /\ dest \in NamesOf(dir[idx])
         /\ FileAt(dir[idx], dest).body = resp.body
         /\ FileAt(dir[idx], dest).len = "full"

\* C1 witness: a write is under way, part of the body is on disk under the
\* temporary name, and the directory already holds an archived item.
C1_Witness ==
    /\ pc = "save_write"
    /\ FileAt(dir[idx], TmpPath(dest)).len = "part"
    /\ FinalFiles(dir[idx]) # {}

\* C2: a reader of the directory (list_images, download) never sees the
\* temporary name nor a file holding only part of a body.
C2_ReaderNeverSeesTemp ==
    \A s \in Sources : \A n \in list_images(dir[s]) :
        ~n.tmp /\ (n # TimelapseName => download(dir[s], n).len = "full")

\* latest of source s resolves to the item named name, which exists and holds body
LatestIs(s, name, body) ==
    /\ Resolve(latest[s], dir[s]) = [body |-> body, len |-> "full"]
    /\ latest[s].kind = "symlink" => latest[s].target = name

\* C3: after a cycle fetched, wrote, updated latest and swept for a source,
\* latest resolves to the item that cycle wrote, an existing file with its body.
C3_LatestIsThisCyclesItem ==
    \A s \in Sources :
        run[s].status = "swept" /\ run[s].ptr \in {"symlink", "copy"} =>
            LatestIs(s, run[s].item, run[s].body)

Ended == {"fetch_failed", "error", "swept"}

EligibleBefore(r) == {p \in r.before : p.name # LatestName}
Newest(S, k) == {f \in S : Cardinality({g \in S : NameLess(f.name, g.name)}) < k}
KeepsLatest(r) == \A p \in r.before : p.name = LatestName => p \in r.after
Deleted(r) == r.byCount \cup r.byAge
Kept(r) == {p \in r.after : p.name # LatestName}
OldBefore(r) == {p \in EligibleBefore(r) : p.mtime < r.now - r.max_age_days}

\* C5: with n eligible files and 0 < max_files = k < n, a sweep whose deletions
\* all succeed removes by count exactly the n - k oldest by name and keeps the k
\* newest; with n <= k the count rule removes nothing; latest is never removed.
C5_CountRule ==
    \A i \in 1..Len(sweep) :
        LET r == sweep[i]
            E == EligibleBefore(r)
            n == Cardinality(E)
            k == r.max_files
        IN /\ (r.raised = {} /\ 0 < k /\ k < n) =>
                /\ r.byCount = E \ Newest(E, k)
                /\ Cardinality(r.byCount) = n - k
                /\ r.max_age_days = 0 => Kept(r) = Newest(E, k)
           /\ n <= k => r.byCount = {}
           /\ KeepsLatest(r)

\* C5 witness: a sweep with max_files = 1 of three files, with latest in the
\* directory pointing at one of the files the sweep removed.
C5_Witness ==
    /\ Len(sweep) = 1
    /\ sweep[1].raised = {}
    /\ sweep[1].max_files = 1
    /\ Cardinality(sweep[1].byCount) = 2
    /\ latest[1].kind = "symlink"
    /\ latest[1].target \notin NamesOf(dir[1])
    /\ \E p \in sweep[1].before : p.name = LatestName

AgeRuleSpares(r) ==
    /\ \A f \in r.byAge : f.mtime < r.now - r.max_age_days
    /\ KeepsLatest(r)

Failed(o) ==
    \/ o.kind \in {"transport_error", "timeout"}
    \/ o.kind = "response" /\ (o.status # HTTP_OK \/ o.body = 0)

TryFetchResult ==
    pc = "fetched" =>
        \/ resp = None /\ gets = cfg.retries + 1 /\ attempt = gets
        \/ resp # None /\ resp = lastGet /\ gets = attempt + 1 /\ gets <= cfg.retries + 1

\* C8: try_fetch terminates; when every attempt failed it has made exactly
\* retries + 1 requests and returns None; when an attempt succeeded it returns
\* that attempt's response, and that attempt was the last request.
C8_TryFetchTerminates == <>(pc = "fetched") /\ [](TryFetchResult)

\* C8 witness: try_fetch has returned None after retries + 1 failed requests,
\* with retries > 0.
C8_Witness ==
    /\ pc = "fetched"
    /\ resp = None
    /\ cfg.retries > 0
    /\ gets = cfg.retries + 1

\* C9: a response is returned only with status 200 and a non-empty body; any
\* other outcome of a request counts as one failed attempt and is not returned.
C9_SuccessNeeds200AndBody ==
    /\ resp # None => resp.kind = "response" /\ resp.status = HTTP_OK /\ resp.body # 0
    /\ (lastGet # None /\ Failed(lastGet)) =>
         pc = "backoff" /\ resp = None /\ attempt = gets
    /\ (lastGet # None /\ ~Failed(lastGet)) => pc = "fetched" /\ resp = lastGet

\* C9 witness: a request answered 200 with an empty body has been counted as a
\* failed attempt.
C9_Witness ==
    /\ pc = "backoff"
    /\ lastGet.kind = "response"
    /\ lastGet.status = HTTP_OK
    /\ lastGet.body = 0
    /\ attempt = 1

\* C10: try_fetch sleeps only between attempts: when it returns None the number of
\* sleeps is the number of retries made, one less than the number of requests,
\* and the k-th sleep lasts backoff ^ k seconds.
C10_SleepsOnlyBetweenAttempts ==
    /\ \A k \in 1..Len(sleeps) : sleeps[k] = Pow(RETRY_BACKOFF_FACTOR, k)
    /\ Len(sleeps) <= cfg.retries
    /\ pc = "fetched" /\ resp = None => Len(sleeps) = gets - 1

\* --- startup and parse_sources
Unconfigured == ~Truthy(env.SOURCES) /\ ~Truthy(env.IMAGE_URL)
Parsed == pc # "start"
\* the characters of [A-Za-z0-9_-] that the texts of the model are written in
SlugChars == AsciiLetters \cup Digits \cup {"-", "_"}

\* C11: with neither SOURCES nor IMAGE_URL set, parse_sources returns the empty
\* list and main returns 2; no directory is created, no request is made and the
\* loop is never entered.
C11_NoSourcesReturns2 ==
    Unconfigured =>
        /\ pc \in {"start", "parsed", "exited"}
        /\ Parsed => sources = <<>>
        /\ made = {}
        /\ gets = 0
        /\ pc = "exited" => ret = 2

\* C11 witness: main has returned with nothing configured but a SOURCE_ID.
C11_Witness ==
    /\ Unconfigured
    /\ Truthy(env.SOURCE_ID)
    /\ pc = "exited"
    /\ ret = 2

\* C15: every source parse_sources returns has a non-empty id written only in
\* [A-Za-z0-9_-].
C15_IdsAreSlugs ==
    Parsed =>
        \A i \in 1..Len(sources) :
            /\ sources[i].id # <<>>
            /\ \A k \in 1..Len(sources[i].id) : sources[i].id[k] \in SlugChars

\* C16: the ids of the sources parse_sources returns are pairwise distinct, and so
\* are their archive directories.
C16_IdsAreDistinct ==
    Parsed =>
        \A i, j \in 1..Len(sources) :
            i # j => sources[i].id # sources[j].id /\ sources[i].dir # sources[j].dir

\* C17: a source configured without an id, as IMAGE_URL alone or as a bare url
\* entry of SOURCES, gets the sanitized host of its url as id.
C17_IdFromHost ==
    Parsed /\ Len(sources) = Len(env.configured) =>
        \A i \in 1..Len(sources) :
            (env.configured[i].id = Unset /\ env.configured[i].url.host # <<>>) =>
                sources[i].id = replace(env.configured[i].url.host, ".", "_")

\* C18: SOURCES is taken entry by entry, in order: as many sources as entries, a
\* bare url entry gives that url unchanged, an id=url entry gives the sanitized id
\* and that url.
C18_EntryByEntry ==
    Parsed /\ Truthy(env.SOURCES) =>
        /\ Len(sources) = Len(env.configured)
        /\ \A i \in 1..Len(sources) :
             /\ sources[i].url = UrlText(env.configured[i].url)
             /\ Truthy(env.configured[i].id) =>
                  \A k \in 1..Len(sources[i].id) :
                      sources[i].id[k] \in {env.configured[i].id[k], "_"}

\* --- guess_extension
Returned == pc = "returned"
ByContentType ==
    {<<"image/jpeg", ".jpg">>, <<"image/png", ".png">>, <<"image/gif", ".gif">>,
     <<"image/webp", ".webp">>}

\* C12: when the content-type, cut at ";", trimmed and lower-cased, is image/jpeg,
\* image/png, image/gif or image/webp, guess_extension returns .jpg, .png, .gif or
\* .webp, whatever the url.
C12_ContentTypeFirst ==
    Returned =>
        \A m \in ByContentType : env.h.sent /\ env.h.media = m[1] => ret = m[2]

\* C12 witness: an upper-case IMAGE/PNG with white space and a parameter decided
\* against a url whose path ends in .j.
C12_Witness ==
    /\ Returned
    /\ env.h.sent /\ env.h.media = "image/png"
    /\ env.h.upper /\ env.h.spaced /\ env.h.params
    /\ Suffix(env.u.path) = <<".", "j">>
    /\ ret = ".png"

\* C13: without a recognized content-type, guess_extension returns the suffix of
\* the url's path when the path has one, and .img when it has none, the empty path
\* included.
C13_UrlSuffixElseImg ==
    (Returned /\ (~env.h.sent \/ env.h.media = "text/html")) =>
        ret = IF Suffix(PathName(env.u.path)) # <<>>
                THEN Text(Suffix(PathName(env.u.path))) ELSE ".img"

\* --- filename_for_ts
DigitValue(c) == CHOOSE d \in 0..9 : Digit(d) = c
RECURSIVE Value(_)
Value(s) == IF s = <<>> THEN 0 ELSE 10 * Value(SubSeq(s, 1, Len(s) - 1)) + DigitValue(Last(s))
Field(s, from, to) ==
    IF \A i \in from..to : s[i] \in Digits THEN Value(SubSeq(s, from, to)) ELSE -1

\* C14: filename_for_ts gives four digits of year, two of month, two of day, "_",
\* two of hour, of minute and of second, then the extension and nothing else;
\* 2020-01-02 03:04:05 with .jpg gives 20200102_030405.jpg.
C14_FilenameFormat ==
    Returned =>
        /\ Len(ret) = 15 + Len(env.ext)
        /\ Field(ret, 1, 4) = env.ts.year
        /\ Field(ret, 5, 6) = env.ts.month
        /\ Field(ret, 7, 8) = env.ts.day
        /\ ret[9] = "_"
        /\ Field(ret, 10, 11) = env.ts.hour
        /\ Field(ret, 12, 13) = env.ts.minute
        /\ Field(ret, 14, 15) = env.ts.second
        /\ Drop(ret, 15) = env.ext
        /\ (env.ts = [year |-> 2020, month |-> 1, day |-> 2, hour |-> 3, minute |-> 4,
                      second |-> 5] /\ env.ext = <<".", "j", "p", "g">>) =>
               Text(ret) = "20200102_030405.jpg"

\* C14 witness: the file name of 2020-01-02 03:04:05 with .jpg has been returned.
C14_Witness ==
    /\ Returned
    /\ env.ts = [year |-> 2020, month |-> 1, day |-> 2, hour |-> 3, minute |-> 4, second |-> 5]
    /\ env.ext = <<".", "j", "p", "g">>
    /\ Text(ret) = "20200102_030405.jpg"

\* --- latest, at every moment
\* C19: once a cycle has archived an item for a source, the directory holds an
\* entry latest at every moment, and it resolves to that item.
C19_LatestAlwaysThere ==
    \A s \in Sources :
        run[s].commits > 0 =>
            latest[s] # None /\ LatestIs(s, run[s].item, run[s].body)

\* --- the loop
\* C20: no error makes main return or raise; every cycle comes to its end and
\* another cycle starts, for ever.
C20_LoopNeverEnds ==
    /\ [](pc \in {"source_start", "get", "backoff", "fetched", "save_open", "save_write",
                  "save_replace", "latest_unlink", "latest_symlink", "latest_copy",
                  "rotate", "next_source", "cycle_sleep"})
    /\ []<>(pc = "cycle_sleep")
    /\ []<>(pc = "source_start" /\ idx = 1)

\* C20 witness: a cycle has ended in which the write raised for one source and
\* the fetch failed every retry for the other, after a cycle that archived an item.
C20_Witness ==
    /\ pc = "cycle_sleep"
    /\ run[1].status = "error"
    /\ run[2].status = "fetch_failed"
    /\ \E f \in dir[1] : f.name.tmp /\ f.len = "part"
    /\ \E f \in dir[2] : ~f.name.tmp

\* --- generate_timelapse
\* the capture date of a file name: its first eight characters read as a number
CaptureDate(name) == IF Len(name) >= 8 THEN Field(name, 1, 8) ELSE -1

\* C21: with a start date S and an end date E, generate_timelapse selects exactly
\* the images whose capture date lies between S and E, both days included.
C21_DatesInclusive ==
    (Returned /\ Truthy(env.start_date) /\ Truthy(env.end_date)) =>
        {ret.images[i] : i \in 1..Len(ret.images)} =
            {p \in env.names : /\ IsImage(p)
                               /\ Value(env.start_date) <= CaptureDate(p)
                               /\ CaptureDate(p) <= Value(env.end_date)}

\* --- the order of names and the fate of archived items
\* C22: within one source the order of file names is the order of commits: an
\* item just renamed into place has a name strictly greater than the name of
\* every item archived before it.
C22_NameOrderIsCommitOrder ==
    pc = "latest_unlink" =>
        \A f \in FinalFiles(dir[idx]) : f.name # dest => NameLess(f.name, dest)

\* C23: an archived item is never replaced by a later write: when save_image is
\* about to rename the temporary file into place, no item has that name yet.
C23_NoItemIsReplaced ==
    pc = "save_replace" => dest \notin NamesOf(dir[idx])

\* --- what a failure leaves behind
\* source s is in try_fetch, or its fetch of this cycle has failed
FetchFailing(s) == (idx = s /\ pc \in {"get", "backoff", "fetched"}) \/ run[s].status = "fetch_failed"

\* C24: from the call of try_fetch to the end of a cycle in which the fetch fails
\* after all retries, the source's directory and latest do not change and no
\* sweep runs; a sweep runs only right after the source's write of this cycle,
\* once.
C24_FailedFetchChangesNothing ==
    [][/\ \A s \in Sources :
            FetchFailing(s) =>
                /\ dir'[s] = dir[s]
                /\ latest'[s] = latest[s]
                /\ idx = s => (sweep' = sweep \/ sweep' = <<>>)
       /\ (sweep' # sweep /\ sweep' # <<>>) =>
            /\ pc = "rotate"
            /\ sweep = <<>>
            /\ Len(sweep') = 1
            /\ run[idx].status = "saved"
            /\ run[idx].commits = 1
            /\ run[idx].item \in NamesOf(sweep'[1].before)
            /\ run'[idx].status = "swept"]_vars

\* C24 witness: the second cycle is over; the first source, which has an archived
\* item and a latest from the first cycle, failed every retry, and the second
\* source was written and swept.
C24_Witness ==
    /\ pc = "cycle_sleep"
    /\ cycle = 2
    /\ run[1].status = "fetch_failed"
    /\ FinalFiles(dir[1]) # {}
    /\ latest[1] # None
    /\ run[2].status = "swept"

\* source s is in save_image, or its save_image of this cycle has raised
WriteFailing(s) ==
    \/ idx = s /\ pc \in {"save_open", "save_write"}
    \/ run[s].status = "error" /\ run[s].commits = 0

\* C25: when save_image raises, the exception is caught and the cycle goes on to
\* the next source; from the start of the write to the end of the cycle latest is
\* not touched and resolves to the same content as before.
C25_WriteFailureKeepsLatest ==
    /\ [](/\ pc # "raised"
          /\ \A s \in Sources :
               (pc = "cycle_sleep" /\ run[s].status = "error") =>
                   \A t \in Sources : run[t].status \in Ended)
    /\ [][/\ \A s \in Sources :
               WriteFailing(s) =>
                   /\ latest'[s] = latest[s]
                   /\ Resolve(latest'[s], dir'[s]) = Resolve(latest[s], dir[s])
          /\ (pc = "save_write" /\ run'[idx].status = "error") =>
               /\ pc' = "next_source"
               /\ run'[idx].ptr = "none"]_vars

\* C25 witness: in the second cycle save_image has raised for a source whose
\* latest resolves to the item of the first cycle.
C25_Witness ==
    /\ pc = "next_source"
    /\ cycle = 2
    /\ run[idx].status = "error"
    /\ run[idx].commits = 0
    /\ Resolve(latest[idx], dir[idx]) = [body |-> Body(1), len |-> "full"]

Violating(r) ==
    (IF r.max_files > 0 THEN EligibleBefore(r) \ Newest(EligibleBefore(r), r.max_files) ELSE {})
    \cup (IF r.max_age_days > 0 THEN OldBefore(r) ELSE {})

\* C27: with both limits set and every deletion succeeding, the eligible files a
\* sweep leaves are exactly those among the max_files newest by name whose mtime
\* is not before the cutoff; every other eligible file is deleted, whether or
\* not the count rule removed files first.
C27_BothRules ==
    \A i \in 1..Len(sweep) :
        LET r == sweep[i]
            E == EligibleBefore(r)
        IN (r.max_files > 0 /\ r.max_age_days > 0 /\ r.raised = {}) =>
              /\ Kept(r) = {f \in Newest(E, r.max_files) : f.mtime >= r.now - r.max_age_days}
              /\ Deleted(r) = E \ Kept(r)
              /\ KeepsLatest(r)

\* C27 witness: one sweep in which no deletion failed removed a file by count and
\* then another by age, and kept a file.
C27_Witness ==
    /\ Len(sweep) = 1
    /\ sweep[1].raised = {}
    /\ sweep[1].byCount # {}
    /\ sweep[1].byAge # {}
    /\ Kept(sweep[1]) # {}

\* C28: a sweep in which a deletion fails still ends normally and deletes every
\* other file that violates the count or the age limit.
C28_FailedDeletionDoesNotAbort ==
    /\ [](\A i \in 1..Len(sweep) :
            Deleted(sweep[i]) = {f \in Violating(sweep[i]) : f.name \notin sweep[i].raised})
    /\ [][(sweep' # sweep /\ sweep' # <<>> /\ Last(sweep').raised # {}) =>
            /\ run'[idx].status = "swept"
            /\ pc' = "next_source"
            /\ NamesOf(dir'[idx]) =
                 NamesOf(Eligible(Last(sweep').before)) \ NamesOf(Deleted(Last(sweep')))]_vars

\* C28 witness: a sweep could not delete one file and deleted a file that comes
\* after it in the order of names.
C28_Witness ==
    /\ pc = "next_source"
    /\ Len(sweep) = 1
    /\ \E x \in sweep[1].raised : \E f \in Deleted(sweep[1]) : NameLess(x, f.name)
    /\ run[idx].status = "swept"

\* --- the pace of cycles
\* C29: one source is processed at a time, in order; a cycle ends, and the next
\* one starts, only when every source has been processed, after a sleep of
\* INTERVAL_SECONDS minus the seconds the cycle took when that is positive and
\* with no sleep at all otherwise.
C29_Pacing ==
    /\ [](/\ start <= clock
          /\ pc = "cycle_start" => (cycle = 1 \/ Len(processed) = NumSources)
          /\ processed = [i \in 1..Len(processed) |-> i])
    /\ [][/\ cycle' # cycle =>
               /\ cycle' = cycle + 1
               /\ processed = [i \in 1..NumSources |-> i]
               /\ LET left == env.INTERVAL_SECONDS - (clock - start)
                  IN IF left > 0
                       THEN clock' = clock + left /\ sleeps' = Append(sleeps, left)
                       ELSE clock' = clock /\ sleeps' = sleeps
          /\ start' # start => start' = clock /\ pc = "cycle_start" /\ pc' = "source"
          /\ processed' # processed =>
               \/ processed' = Append(processed, Len(processed) + 1)
               \/ processed' = <<>> /\ Len(processed) = NumSources
          /\ sleeps' # sleeps => pc = "pace"]_vars

\* C29 witness: the second cycle has started INTERVAL_SECONDS after the first,
\* which took some of that time and slept for the rest.
C29_Witness ==
    /\ pc = "source"
    /\ cycle = 2
    /\ Len(sleeps) = 1
    /\ 0 < sleeps[1] /\ sleeps[1] < env.INTERVAL_SECONDS
    /\ start = env.INTERVAL_SECONDS

====
